---- MODULE Spec2Model ----
(***************************************************************************)
(* Auto-add-to-cart: the storefront engine (theme-auto-add/assets/         *)
(* auto-add.js), the cart-transform function (cart_transform_run.ts) and   *)
(* the rules endpoint (app/routes/api.rules/route.ts), the admin block     *)
(* (admin-rules/src/BlockExtension.jsx) and the collection-index endpoint  *)
(* (app/routes/api.collection-index/route.ts).                             *)
(*                                                                         *)
(* Identifiers are strings in the source.  A Shopify id string is modelled *)
(* as a record [pre, n]: pre is the GID prefix it carries ("ProductVariant"*)
(* stands for "gid://shopify/ProductVariant/", "" for a bare number) and n *)
(* the numeric part.  Money is kept in cents.                              *)
(***************************************************************************)
EXTENDS Integers, Sequences, FiniteSets, TLC

VARIABLES
    storedRules,    \* the value of the shop metafield auto_add2cart/rules
    rules,          \* auto-add.js: let rules
    processing,     \* auto-add.js: let processing
    lastCartToken,  \* auto-add.js: let lastCartToken
    cart,           \* the shop's cart as /cart.js serves it: [token, items]
    cycles,         \* processCart invocations that passed the busy guard; knocked
                    \* records that a later invocation returned at the guard
    timers,         \* pending setTimeout(processCart, ...) callbacks
    last,           \* history: snapshot and calls of the latest evaluation, and
                    \* its calls that failed
    clean,          \* history: the last evaluating cycle applied all its calls
                    \* and nothing else has changed the cart since its snapshot
    edits,          \* customer actions so far
    detected,       \* history: the fetch wrapper has seen a cart modification
                    \* complete, and no cycle has yet evaluated the rules on a
                    \* snapshot served after it
    collectionIndex,\* the value of the shop metafield auto_add2cart/collection_index
    rebuilds,       \* api.collection-index actions between their read of the
                    \* stored index and their metafieldsSet
    answer          \* the latest response of the api.collection-index action

indexVars == <<collectionIndex, rebuilds, answer>>

vars == <<storedRules, rules, processing, lastCartToken, cart, cycles, timers,
          last, clean, edits, detected, collectionIndex, rebuilds, answer>>

----------------------------------------------------------------------------
(* Bounds of the model *)

MaxLines == 2       \* cart lines
MaxQty == 2         \* quantity of one line
MaxRules == 2       \* rules in the stored rule list
MaxTimers == 1      \* pending setTimeout callbacks told apart
MaxInFlight == 2    \* processCart invocations past the guard that are tracked
MaxEdits == 2       \* customer actions in one behaviour
MaxRebuilds == 2    \* api.collection-index actions between read and write

----------------------------------------------------------------------------
(* Identifiers and the shop's catalogue *)

Gid(pre, n) == [pre |-> pre, n |-> n]

\* s.replace('gid://shopify/<pre>/', ''): removes the prefix when s carries it
StripPrefix(s, pre) == IF s.pre = pre THEN Gid("", s.n) ELSE s

\* String(number)
String(n) == Gid("", n)

\* ids in the shop: variant 1 is an ordinary product, 2 and 3 are gifts
Variants == {1, 2, 3}
ProductOf(v) == IF v = 3 THEN 2 ELSE 1
PriceOf(v) == CASE v = 1 -> 3000 [] v = 2 -> 1000 [] OTHER -> 0
CartCurrency == "USD"
Tokens == {"t1", "t2"}
Null == "null"

\* condition.max omitted (undefined), and max: null
NoMax == -1
NullMax == -2

\* cond.max !== undefined && cond.max !== null
HasMax(max) == max # NoMax /\ max # NullMax

\* typeof cond.max === "number"
IsNumber(max) == max \notin {NoMax, NullMax}

----------------------------------------------------------------------------
(* Cart lines as /cart.js returns them *)

AUTO_ADD_PROPERTY == "_auto_added"

\* properties: Null, or the value of properties._auto_added
\* the line key is made by the shop from the variant and the line properties
MkItem(v, props, x, q) ==
    [key |-> <<v, props, x>>, variant_id |-> v, product_id |-> ProductOf(v),
     quantity |-> q, properties |-> props]

\* (a second marked line of variant 3 carries some other property as well)
ItemKeys ==
    (Variants \X {Null} \X {0}) \cup (Variants \X {"true"} \X {0}) \cup {<<3, "true", 1>>}

AllItems == {MkItem(k[1], k[2], k[3], q) : k \in ItemKeys, q \in 1..MaxQty}

RECURSIVE SeqsUpTo(_, _)
SeqsUpTo(S, n) ==
    IF n = 0 THEN {<<>>}
    ELSE LET shorter == SeqsUpTo(S, n - 1)
         IN shorter \cup {Append(s, e) : s \in {t \in shorter : Len(t) = n - 1}, e \in S}

DistinctKeys(items) ==
    \A i, j \in 1..Len(items) : i # j => items[i].key # items[j].key

AllCartItems == {s \in SeqsUpTo(AllItems, MaxLines) : DistinctKeys(s)}

RECURSIVE SumPrice(_, _)
SumPrice(items, i) ==
    IF i > Len(items) THEN 0
    ELSE PriceOf(items[i].variant_id) * items[i].quantity + SumPrice(items, i + 1)

\* cart.total_price, in cents
total_price(c) == SumPrice(c.items, 1)

\* item.properties && item.properties[AUTO_ADD_PROPERTY] === 'true'
IsAutoAdded(item) == item.properties # Null /\ item.properties = "true"

----------------------------------------------------------------------------
(* The rule model (cart_transform_run.ts, AutoAddRule) *)

\* action.quantity omitted
NoQuantity == 0

ProductQuantityInRange(productId, min, max) ==
    [type |-> "product_quantity_in_range", productId |-> productId,
     min |-> min, max |-> max]
CartTotalGte(value) == [type |-> "cart_total_gte", value |-> value]
CartTotalAtLeast(amount, currencyCode) ==
    [type |-> "cart_total_at_least", amount |-> amount, currencyCode |-> currencyCode]
CartQuantityAtLeast(threshold) ==
    [type |-> "cart_quantity_at_least", threshold |-> threshold]
CartQuantityInRange(min, max) ==
    [type |-> "cart_quantity_in_range", min |-> min, max |-> max]
IncludesAnyVariants(variantIds) ==
    [type |-> "includes_any_variants", variantIds |-> variantIds]
IncludesAnyProducts(productIds) ==
    [type |-> "includes_any_products", productIds |-> productIds]
IncludesAnyCollections(collectionIds) ==
    [type |-> "includes_any_collections", collectionIds |-> collectionIds]

\* action.quantity, 1 when omitted (quantity?: number, default 1)
ActionQuantity(rule) ==
    IF rule.action.quantity = NoQuantity THEN 1 ELSE rule.action.quantity

Rule(id, active, group, conditions, addVariantId, quantity) ==
    [id |-> id, active |-> active, group |-> group, conditions |-> conditions,
     action |-> [addVariantId |-> addVariantId, quantity |-> quantity]]

\* the metafield value: a JSON array of entries, or no value, a string that is
\* not JSON, or JSON that is not an array
JsonArray(entries) == [form |-> "array", entries |-> entries]
NoValue == [form |-> "absent", entries |-> <<>>]
NotJson == [form |-> "unparseable", entries |-> <<>>]
JsonObject == [form |-> "object", entries |-> <<>>]

ArrayValues(lists) == {JsonArray(list) : list \in lists}

\* entries of the array that are not objects: null, and a number
NullEntry == [json |-> "null"]
NumberEntry == [json |-> "number"]
IsObject(entry) == "json" \notin DOMAIN entry

\* Boolean(entry): null is falsy, a non-zero number and an object are truthy
Boolean(entry) == entry # NullEntry

\* entry.active, undefined (falsy) on an entry that has no such property
Active(entry) == IsObject(entry) /\ entry.active

\* rules a merchant can store that the storefront script can act on
RuleOwnGift ==
    Rule("own-gift", TRUE, "", <<ProductQuantityInRange(Gid("Product", 1), 1, 2)>>,
         Gid("ProductVariant", 2), NoQuantity)
RulePair ==
    Rule("pair", TRUE, "tier", <<ProductQuantityInRange(Gid("Product", 1), 2, 2)>>,
         Gid("ProductVariant", 3), 2)
RuleSpend30 ==
    Rule("spend30", TRUE, "tier", <<CartTotalGte(30)>>, Gid("ProductVariant", 2), 1)
RuleSpend40 ==
    Rule("spend40", TRUE, "tier",
         <<ProductQuantityInRange(Gid("Product", 1), 1, NoMax), CartTotalGte(40)>>,
         Gid("ProductVariant", 3), 1)
\* the rule of the spec's scenarios, with the condition kind of the rule model
RuleR1 ==
    Rule("r1", TRUE, "", <<CartTotalAtLeast(50, Null)>>, Gid("ProductVariant", 2), 1)
\* ids stored as bare numbers
RuleBare ==
    Rule("bare", TRUE, "", <<ProductQuantityInRange(Gid("", 1), 1, 2)>>, Gid("", 3), 1)
RuleOff ==
    Rule("off", FALSE, "", <<ProductQuantityInRange(Gid("Product", 1), 1, NoMax)>>,
         Gid("ProductVariant", 3), 1)

StorefrontCatalog == {RuleOwnGift, RulePair, RuleSpend30, RuleSpend40, RuleBare}

\* one rule of every other condition kind of the rule model
ModelCatalog ==
    { RuleR1, RuleOff,
      Rule("qty", TRUE, "", <<CartQuantityAtLeast(2)>>, Gid("ProductVariant", 3), 1),
      Rule("qty-range", TRUE, "", <<CartQuantityInRange(1, 2)>>,
           Gid("ProductVariant", 3), 1),
      Rule("eur", TRUE, "", <<CartTotalAtLeast(30, "EUR")>>,
           Gid("ProductVariant", 3), 1),
      Rule("variants", TRUE, "", <<IncludesAnyVariants({Gid("ProductVariant", 1)})>>,
           Gid("ProductVariant", 3), 1),
      Rule("products", TRUE, "", <<IncludesAnyProducts({Gid("Product", 1)})>>,
           Gid("ProductVariant", 3), 1),
      Rule("collections", TRUE, "", <<IncludesAnyCollections({"c1"})>>,
           Gid("ProductVariant", 3), 1),
      Rule("empty", TRUE, "", <<>>, Gid("ProductVariant", 3), 1),
      Rule("unknown", TRUE, "", <<[type |-> "cart_is_blue"]>>,
           Gid("ProductVariant", 3), 1) }

\* range conditions with every min <= max the carts of the bounds can straddle,
\* and with max omitted or null
TopMax == MaxLines * MaxQty - 1
RangeBounds ==
    {<<min, max>> : min \in 1..2, max \in 1..TopMax \cup {NoMax, NullMax}}
        \ {<<2, 1>>}
RangeRules ==
    {Rule("range", TRUE, "", <<ProductQuantityInRange(Gid("Product", 1), b[1], b[2])>>,
          Gid("ProductVariant", 3), 1) : b \in RangeBounds}
    \cup {Rule("cart-range", TRUE, "", <<CartQuantityInRange(b[1], b[2])>>,
                Gid("ProductVariant", 3), 1) : b \in RangeBounds}

\* cart_total_at_least with and without a currency code
CurrencyRules ==
    {Rule("total", TRUE, "", <<CartTotalAtLeast(amount, code)>>,
          Gid("ProductVariant", 3), 1) : amount \in {0, 30}, code \in {Null, "USD", "EUR"}}

\* a product_quantity_in_range condition stored without its productId
NoProductId == [type |-> "product_quantity_in_range", min |-> 1, max |-> NoMax]
UnknownKind == [type |-> "cart_is_blue"]

\* rules of several conditions: passing and failing ones in both orders, an
\* unknown kind and a wrongly-typed condition before and after another one
ConditionLists ==
    { <<ProductQuantityInRange(Gid("Product", 1), 1, NoMax), CartTotalGte(40)>>,
      <<CartTotalGte(40), ProductQuantityInRange(Gid("Product", 1), 1, NoMax)>>,
      <<UnknownKind, CartTotalGte(30)>>,
      <<CartTotalGte(30), UnknownKind>>,
      <<CartTotalGte(40), NoProductId>>,
      <<NoProductId, CartTotalGte(40)>>,
      <<CartQuantityAtLeast(2), IncludesAnyVariants({Gid("ProductVariant", 1)})>>,
      <<IncludesAnyProducts({Gid("Product", 1)}), CartQuantityInRange(1, 2)>>,
      <<UnknownKind, CartQuantityAtLeast(2)>>,
      <<CartQuantityAtLeast(2), UnknownKind>>,
      <<CartQuantityAtLeast(2), NoProductId>> }
CompoundRules ==
    {Rule("compound", TRUE, "", conditions, Gid("ProductVariant", 3), 1) :
        conditions \in ConditionLists}

\* conditions whose min, threshold or amount is negative
NegativeConditions ==
    { ProductQuantityInRange(Gid("Product", 1), -1, NoMax),
      CartQuantityInRange(-1, 2),
      CartQuantityAtLeast(-1),
      CartTotalAtLeast(-1, Null) }
NegativeRules ==
    {Rule("negative", TRUE, "", <<cond>>, Gid("ProductVariant", 3), 1) :
        cond \in NegativeConditions}

\* validateRule's tests of one condition: TRUE when it pushes no error
\* (ids and id lists are present in every rule of the catalogues)
validCondition(c) ==
    CASE c.type = "cart_quantity_at_least" -> ~(c.threshold < 0)
      [] c.type = "cart_quantity_in_range" ->
           ~(c.min < 0) /\ ~(IsNumber(c.max) /\ c.max < c.min)
      [] c.type = "cart_total_at_least" -> ~(c.amount < 0)
      [] c.type = "product_quantity_in_range" ->
           /\ "productId" \in DOMAIN c
           /\ ~(c.min < 0) /\ ~(IsNumber(c.max) /\ c.max < c.min)
      [] OTHER -> TRUE

\* validateRule(r).length = 0
validateRule(r) == \A n \in 1..Len(r.conditions) : validCondition(r.conditions[n])

\* saveRules posts the rules and the action stores JSON.stringify(body.rules);
\* validateAll runs after the save and fills the list of messages shown
saveRules(next) == JsonArray(next)

\* stored values for the evaluators: one rule of every shape above, arrays
\* with an entry that is not a rule, and values that are not arrays
EvalValues ==
    {saveRules(<<r>>) : r \in NegativeRules} \cup
    ArrayValues({<<r>> : r \in RangeRules \cup CurrencyRules \cup CompoundRules
                                  \cup ModelCatalog \cup {RuleOwnGift}})
    \cup ArrayValues({<<NullEntry, RuleOwnGift>>, <<NumberEntry, RuleOwnGift>>,
                      <<Rule("typed", TRUE, "", <<NoProductId>>,
                             Gid("ProductVariant", 3), 1), RuleOwnGift>>})
    \cup {NoValue, NotJson, JsonObject}

AllRuleLists ==
    SeqsUpTo(StorefrontCatalog, MaxRules) \cup {<<r>> : r \in ModelCatalog}

----------------------------------------------------------------------------
(* Storefront: evaluateRule (auto-add.js) *)

\* for contrast: the quantity loop without the skip of auto-added items
RECURSIVE CountAllQty(_, _, _)
CountAllQty(items, targetProductId, i) ==
    IF i > Len(items) THEN 0
    ELSE (IF String(items[i].product_id) = targetProductId THEN items[i].quantity ELSE 0)
         + CountAllQty(items, targetProductId, i + 1)

\* the quantity loop of the product_quantity_in_range case
RECURSIVE CountTriggerQty(_, _, _)
CountTriggerQty(items, targetProductId, i) ==
    IF i > Len(items) THEN 0
    ELSE LET item == items[i]
             rest == CountTriggerQty(items, targetProductId, i + 1)
         IN IF IsAutoAdded(item) THEN rest
            ELSE IF String(item.product_id) = targetProductId
                 THEN item.quantity + rest
                 ELSE rest

\* the condition kinds each evaluator's switch has a case for
StorefrontKinds == {"product_quantity_in_range", "cart_total_gte"}
TransformKinds ==
    {"cart_quantity_at_least", "cart_total_at_least", "includes_any_variants",
     "includes_any_products", "includes_any_collections", "cart_quantity_in_range",
     "product_quantity_in_range"}

\* for contrast: a switch whose default case lets the condition pass
evaluateConditionLenient(cond, c) ==
    \/ cond.type \notin StorefrontKinds
    \/ cond.type = "cart_total_gte" /\ ~(total_price(c) < cond.value * 100)
    \/ /\ cond.type = "product_quantity_in_range"
       /\ "productId" \in DOMAIN cond
       /\ LET totalQty == CountTriggerQty(c.items,
                                          StripPrefix(cond.productId, "Product"), 1)
          IN ~(totalQty < cond.min) /\ ~(HasMax(cond.max) /\ totalQty > cond.max)

\* for contrast: the range test with both bounds exclusive
evaluateConditionExclusive(cond, c) ==
    /\ cond.type = "product_quantity_in_range"
    /\ "productId" \in DOMAIN cond
    /\ LET targetProductId == StripPrefix(cond.productId, "Product")
           totalQty == CountTriggerQty(c.items, targetProductId, 1)
       IN /\ ~(totalQty <= cond.min)
          /\ ~(HasMax(cond.max) /\ totalQty >= cond.max)

\* cond.productId.replace(...) / cond.productId.trim() on a condition stored
\* without productId: TypeError
conditionThrows(cond) ==
    cond.type = "product_quantity_in_range" /\ "productId" \notin DOMAIN cond

\* one pass of the switch: TRUE when the condition neither returns false nor
\* throws
evaluateCondition(cond, c) ==
    CASE conditionThrows(cond) -> FALSE
      [] cond.type = "product_quantity_in_range" ->
           LET targetProductId == StripPrefix(cond.productId, "Product")
               totalQty == CountTriggerQty(c.items, targetProductId, 1)
           IN /\ ~(totalQty < cond.min)
              /\ ~(HasMax(cond.max) /\ totalQty > cond.max)
      [] cond.type = "cart_total_gte" ->
           \* cartTotal = total_price / 100; cartTotal < cond.value
           ~(total_price(c) < cond.value * 100)
      [] OTHER -> FALSE

\* for contrast: a loop that stops after its first condition
evaluateFirstOnly(rule, c, i) == evaluateCondition(rule.conditions[i], c)

RECURSIVE evaluateFrom(_, _, _)
evaluateFrom(rule, c, i) ==
    IF i > Len(rule.conditions) THEN TRUE
    ELSE IF evaluateCondition(rule.conditions[i], c)
         THEN evaluateFrom(rule, c, i + 1)
         ELSE FALSE

evaluateRule(rule, c) ==
    IF Len(rule.conditions) = 0 THEN FALSE ELSE evaluateFrom(rule, c, 1)

\* evaluateRule ends in a TypeError: the loop reaches a condition that throws
evaluateThrows(rule, c) ==
    \E n \in 1..Len(rule.conditions) :
        /\ conditionThrows(rule.conditions[n])
        /\ \A m \in 1..(n - 1) : evaluateCondition(rule.conditions[m], c)

----------------------------------------------------------------------------
(* Storefront: processCart's decision, a function of the rules and the      *)
(* snapshot (the results of the mutation calls are not read)                *)

\* shouldHaveVariants: a Map in insertion order, as a sequence of entries
MapHas(map, k) == \E i \in 1..Len(map) : map[i].k = k
MapGet(map, k) == map[CHOOSE i \in 1..Len(map) : map[i].k = k].rule
MapSet(map, k, rule) ==
    IF MapHas(map, k)
    THEN [i \in 1..Len(map) |-> IF map[i].k = k THEN [k |-> k, rule |-> rule] ELSE map[i]]
    ELSE Append(map, [k |-> k, rule |-> rule])
MapDelete(map, k) == SelectSeq(map, LAMBDA e : e.k # k)

\* for contrast: the group check left out
GroupNeverTaken(rule, seenGroups) == FALSE

\* if (rule.group) { if (seenGroups.has(rule.group)) continue; ... }
GroupTaken(rule, seenGroups) == rule.group # "" /\ rule.group \in seenGroups

\* for contrast: the loop over rules without the test of matches
RECURSIVE resolveAll(_, _, _, _, _)
resolveAll(rs, c, i, map, seenGroups) ==
    IF i > Len(rs) THEN map
    ELSE resolveAll(rs, c, i + 1, MapSet(map, rs[i].action.addVariantId, rs[i]), seenGroups)

\* the loop over rules that fills shouldHaveVariants
RECURSIVE resolveFrom(_, _, _, _, _)
resolveFrom(rs, c, i, map, seenGroups) ==
    IF i > Len(rs) THEN map
    ELSE LET rule == rs[i] IN
         IF evaluateRule(rule, c)
         THEN IF GroupTaken(rule, seenGroups)
              THEN resolveFrom(rs, c, i + 1, map, seenGroups)
              ELSE resolveFrom(rs, c, i + 1,
                               MapSet(map, rule.action.addVariantId, rule),
                               IF rule.group # "" THEN seenGroups \cup {rule.group}
                                                  ELSE seenGroups)
         ELSE resolveFrom(rs, c, i + 1, map, seenGroups)

shouldHaveVariants(rs, c) == resolveFrom(rs, c, 1, <<>>, {})

\* the loop over rules is left by a TypeError of evaluateRule
loopThrows(rs, c) == \E i \in 1..Len(rs) : evaluateThrows(rs[i], c)

\* for contrast: every line taken for an auto-added one
allItems(c) == c.items

autoAddedItems(c) == SelectSeq(c.items, IsAutoAdded)

\* the calls processCart makes
Remove(lineKey) == [op |-> "remove", key |-> lineKey]
SetQuantity(lineKey, quantity) == [op |-> "update", key |-> lineKey, quantity |-> quantity]
Add(variantId, quantity) == [op |-> "add", variantId |-> variantId, quantity |-> quantity]

\* the quantity processCart gives a gift
GiftQuantity(rule) == 1

\* the loop over autoAddedItems: the calls made and what is left of the map
RECURSIVE checkAutoAdded(_, _, _, _)
checkAutoAdded(items, i, map, ops) ==
    IF i > Len(items) THEN [ops |-> ops, map |-> map]
    ELSE LET item == items[i]
             variantGid == Gid("ProductVariant", item.variant_id)
         IN IF ~MapHas(map, variantGid)
            THEN checkAutoAdded(items, i + 1, map, Append(ops, Remove(item.key)))
            ELSE checkAutoAdded(items, i + 1, MapDelete(map, variantGid),
                                IF item.quantity # GiftQuantity(MapGet(map, variantGid))
                                THEN Append(ops, SetQuantity(item.key,
                                                 GiftQuantity(MapGet(map, variantGid))))
                                ELSE ops)

\* for contrast: a lookup that sees auto-added lines only
HasExistingAutoItem(items, numericId) ==
    \E i \in 1..Len(items) :
        IsAutoAdded(items[i]) /\ String(items[i].variant_id) = numericId

\* cart.items.find(item => String(item.variant_id) === numericId)
HasExistingItem(items, numericId) ==
    \E i \in 1..Len(items) : String(items[i].variant_id) = numericId
existingItem(items, numericId) ==
    items[CHOOSE i \in 1..Len(items) :
            /\ String(items[i].variant_id) = numericId
            /\ \A j \in 1..(i - 1) : String(items[j].variant_id) # numericId]

\* the loop over what is left of shouldHaveVariants
RECURSIVE addMissing(_, _, _, _)
addMissing(items, map, i, ops) ==
    IF i > Len(map) THEN ops
    ELSE LET variantGid == map[i].k
             rule == map[i].rule
             numericId == StripPrefix(variantGid, "ProductVariant")
         IN IF ~HasExistingItem(items, numericId)
            THEN addMissing(items, map, i + 1,
                            Append(ops, Add(variantGid, GiftQuantity(rule))))
            ELSE LET found == existingItem(items, numericId) IN
                 IF ~IsAutoAdded(found)
                 THEN addMissing(items, map, i + 1, ops)
                 ELSE IF found.quantity # GiftQuantity(rule)
                      THEN addMissing(items, map, i + 1,
                                      Append(ops, SetQuantity(found.key, GiftQuantity(rule))))
                      ELSE addMissing(items, map, i + 1, ops)

\* every call one evaluating cycle makes on snapshot c, in order
Plan(rs, c) ==
    LET first == checkAutoAdded(autoAddedItems(c), 1, shouldHaveVariants(rs, c), <<>>)
    IN addMissing(c.items, first.map, 1, first.ops)

----------------------------------------------------------------------------
(* The shop's side of the cart calls (/cart/add.js, /cart/change.js)        *)

NoCart == [token |-> Null, items |-> <<>>]

HasKey(items, k) == \E i \in 1..Len(items) : items[i].key = k

\* parseInt(variantId.replace('gid://shopify/ProductVariant/', ''))
AddedVariant(variantId) == StripPrefix(variantId, "ProductVariant").n

\* /cart/add.js: a line with the same variant and properties grows, otherwise
\* a new line is put first or last
AddResults(items, v, props, q) ==
    LET k == <<v, props, 0>> IN
    IF HasKey(items, k)
    THEN {[i \in 1..Len(items) |->
             IF items[i].key = k
             THEN [items[i] EXCEPT !.quantity = items[i].quantity + q]
             ELSE items[i]]}
    ELSE {<<MkItem(v, props, 0, q)>> \o items, Append(items, MkItem(v, props, 0, q))}

\* /cart/change.js {id: key, quantity}
ChangeResult(items, k, q) ==
    IF q = 0 THEN SelectSeq(items, LAMBDA it : it.key # k)
    ELSE [i \in 1..Len(items) |->
            IF items[i].key = k THEN [items[i] EXCEPT !.quantity = q] ELSE items[i]]

WithinBounds(items) ==
    Len(items) <= MaxLines /\ \A i \in 1..Len(items) : items[i].quantity <= MaxQty

\* the carts a successful call can leave
CallResults(items, call) ==
    CASE call.op = "add" ->
           {r \in AddResults(items, AddedVariant(call.variantId), "true", call.quantity) :
              WithinBounds(r)}
      [] call.op = "remove" ->
           IF HasKey(items, call.key) THEN {ChangeResult(items, call.key, 0)} ELSE {}
      [] OTHER ->
           IF HasKey(items, call.key)
           THEN {ChangeResult(items, call.key, call.quantity)} ELSE {}

----------------------------------------------------------------------------
(* Storefront: processCart, step by step between its awaits *)

NoLast ==
    [evaluated |-> FALSE, snap |-> NoCart, plan |-> <<>>, clean |-> FALSE,
     error |-> FALSE, failed |-> <<>>]

NewCycle ==
    [pc |-> "getCart", snap |-> NoCart, todo |-> <<>>, issued |-> <<>>,
     ok |-> TRUE, clean |-> FALSE, knocked |-> FALSE, stale |-> FALSE]

RemoveAt(seq, i) == SubSeq(seq, 1, i - 1) \o SubSeq(seq, i + 1, Len(seq))

\* for contrast: the guard left out
NeverProcessing == FALSE

\* if (processing) return
AlreadyProcessing == processing

\* processCart() up to its first await
Enter ==
    IF AlreadyProcessing
    THEN /\ cycles' = [i \in 1..Len(cycles) |-> [cycles[i] EXCEPT !.knocked = TRUE]]
         /\ UNCHANGED processing
    ELSE /\ Len(cycles) < MaxInFlight
         /\ processing' = TRUE
         /\ cycles' = Append(cycles, NewCycle)

\* setTimeout(processCart, ...)
Schedule(n) == IF n < MaxTimers THEN n + 1 ELSE n

\* setInterval(processCart, 3000)
Poll ==
    /\ Enter
    /\ UNCHANGED <<indexVars, storedRules, rules, lastCartToken, cart, timers, last, clean, edits,
                   detected>>

\* a setTimeout(processCart, ...) callback runs
TimerFire ==
    /\ timers > 0
    /\ timers' = timers - 1
    /\ Enter
    /\ UNCHANGED <<indexVars, storedRules, rules, lastCartToken, cart, last, clean, edits,
                   detected>>

\* /cart.js is served: getCart's fetch gets the cart, or fails
ServeCart(i) ==
    /\ cycles[i].pc = "getCart"
    /\ \E snap \in {cart, NoCart} :
         cycles' = [cycles EXCEPT ![i].pc = "gotCart", ![i].snap = snap,
                                  ![i].clean = clean, ![i].stale = FALSE]
    /\ UNCHANGED <<indexVars, storedRules, rules, processing, lastCartToken, cart, timers,
                   last, clean, edits, detected>>

\* for contrast: a try block without the finally clause
withoutFinally == TRUE

\* finally { hideSpinner(); processing = false; }: the value of processing
\* when an invocation leaves the try block
finally == FALSE

\* processCart from the return of getCart to its next await or its end
GetCartReturn(i) ==
    LET c == cycles[i] IN
    /\ c.pc = "gotCart"
    /\ IF c.snap = NoCart \/ c.snap.token = lastCartToken
       THEN /\ processing' = FALSE
            /\ cycles' = RemoveAt(cycles, i)
            /\ UNCHANGED <<lastCartToken, last, clean, detected>>
       ELSE IF loopThrows(rules, c.snap)
       THEN \* the TypeError leaves the try block: finally { processing = false }
            /\ last' = [evaluated |-> TRUE, snap |-> c.snap, plan |-> <<>>,
                        clean |-> c.clean, error |-> TRUE, failed |-> <<>>]
            /\ lastCartToken' = c.snap.token
            /\ processing' = finally
            /\ cycles' = RemoveAt(cycles, i)
            /\ clean' = FALSE
            /\ detected' = (detected /\ c.stale)
       ELSE LET plan == Plan(rules, c.snap) IN
            /\ last' = [evaluated |-> TRUE, snap |-> c.snap, plan |-> plan,
                        clean |-> c.clean, error |-> FALSE, failed |-> <<>>]
            /\ detected' = (detected /\ c.stale)
            /\ IF plan = <<>>
               THEN /\ lastCartToken' = c.snap.token
                    /\ processing' = finally
                    /\ cycles' = RemoveAt(cycles, i)
                    /\ clean' = c.ok
               ELSE /\ lastCartToken' = c.snap.token
                    /\ cycles' = [cycles EXCEPT ![i].pc = "calls", ![i].todo = plan]
                    /\ UNCHANGED <<processing, clean>>
    /\ UNCHANGED <<indexVars, storedRules, rules, cart, timers, edits>>

\* for contrast: madeChanges set only by a call that was applied
madeChangesIfApplied(issued) == FALSE

\* madeChanges = true follows every call, whatever the call returned
madeChanges(issued) == Len(issued) > 0

\* one removeFromCart / updateCartItemQuantity / addToCart call completes:
\* applied, answered with an error status, or the fetch throws
IssueCall(i) ==
    LET c == cycles[i]
        call == Head(c.todo)
        isLast == Len(c.todo) = 1
    IN
    /\ c.pc = "calls"
    /\ \E outcome \in {"ok", "status", "throw"} :
         /\ IF outcome = "ok"
            THEN \E items \in CallResults(cart.items, call), t \in Tokens :
                   cart' = [token |-> t, items |-> items]
            ELSE UNCHANGED cart
         \* the fetch wrapper sees every response of /cart/add and /cart/change
         /\ timers' = IF outcome = "throw" THEN timers ELSE Schedule(timers)
         /\ lastCartToken' =
              IF outcome # "throw" \/ (isLast /\ madeChanges(Append(c.issued, call)))
              THEN Null ELSE lastCartToken
         /\ last' = [last EXCEPT
                       !.failed = IF outcome = "ok" THEN @ ELSE Append(@, call)]
         /\ detected' = (detected \/ outcome # "throw")
         /\ cycles' = [n \in 1..Len(cycles) |->
                         IF n = i
                         THEN [c EXCEPT
                                 !.todo = Tail(c.todo),
                                 !.issued = Append(c.issued, call),
                                 !.ok = c.ok /\ outcome = "ok",
                                 !.pc = IF isLast THEN "refresh" ELSE "calls",
                                 !.stale = c.stale \/ outcome # "throw"]
                         ELSE [cycles[n] EXCEPT
                                 !.stale = @ \/ outcome # "throw"]]
    /\ UNCHANGED <<indexVars, storedRules, rules, processing, clean, edits>>

\* refreshCartUI returns; finally { processing = false }
Finish(i) ==
    /\ cycles[i].pc = "refresh"
    /\ processing' = finally
    /\ clean' = cycles[i].ok
    /\ cycles' = RemoveAt(cycles, i)
    /\ UNCHANGED <<indexVars, storedRules, rules, lastCartToken, cart, timers, last, edits,
                   detected>>

----------------------------------------------------------------------------
(* What happens around processCart: the page's events and the customer *)

\* cart drawer shown, 'cart:open', 'shopify:section:load'
CartOpen ==
    /\ lastCartToken' = Null
    /\ Enter
    /\ UNCHANGED <<indexVars, storedRules, rules, cart, timers, last, clean, edits,
                   detected>>

\* a submit of a /cart/add form, a click on a cart icon
SubmitOrClick ==
    /\ lastCartToken' = Null
    /\ timers' = Schedule(timers)
    /\ UNCHANGED <<indexVars, storedRules, rules, processing, cart, cycles, last, clean, edits,
                   detected>>

\* the carts one customer action can leave: a product added by hand, or the
\* quantity of any line changed (0 removes it)
CustomerResults(items) ==
    {r \in UNION {AddResults(items, v, Null, 1) : v \in Variants} : WithinBounds(r)}
    \cup UNION {{ChangeResult(items, items[i].key, q) :
                    q \in (0..MaxQty) \ {items[i].quantity}} : i \in 1..Len(items)}

\* the customer changes the cart; a theme that does it through window.fetch
\* runs the wrapper installed by setupCartMonitoring
CustomerEdit ==
    /\ edits < MaxEdits
    /\ edits' = edits + 1
    /\ \E items \in CustomerResults(cart.items), t \in Tokens :
         cart' = [token |-> t, items |-> items]
    /\ clean' = FALSE
    /\ \E viaFetch \in BOOLEAN :
         /\ cycles' = [i \in 1..Len(cycles) |->
                         [cycles[i] EXCEPT !.ok = FALSE, !.stale = @ \/ viaFetch]]
         /\ IF viaFetch
            THEN lastCartToken' = Null /\ timers' = Schedule(timers) /\ detected' = TRUE
            ELSE UNCHANGED <<lastCartToken, timers, detected>>
    /\ UNCHANGED <<indexVars, storedRules, rules, processing, last>>

----------------------------------------------------------------------------
(* The rules endpoint and fetchRules *)

\* api.rules loader: rules.filter(r => r && r.active)
activeRules(parsed) == SelectSeq(parsed, LAMBDA r : Boolean(r) /\ Active(r))

\* the public loader's response for a metafield value: JSON.parse fails ->
\* rules = []; a parsed value without .filter throws into the outer catch,
\* which answers with status 500
loader(value) ==
    CASE value.form = "array" -> [ok |-> TRUE, rules |-> activeRules(value.entries)]
      [] value.form = "object" -> [ok |-> FALSE, rules |-> <<>>]
      [] OTHER -> [ok |-> TRUE, rules |-> <<>>]

\* fetchRules: rules = data.rules || []; a response that is not ok throws into
\* the catch and rules stays []
fetchRules(response) == IF response.ok THEN response.rules ELSE <<>>


----------------------------------------------------------------------------
(* The cart transform (cart_transform_run.ts) *)

\* a stored collection index that is a JSON object: entries maps the keys
\* (product ids) to their values
IndexObject(entries) == [form |-> "index", entries |-> entries]
JsonNull == [form |-> "null", entries |-> <<>>]

\* values of the keys: an array, an object with a collections array
IdList(list) == [kind |-> "array", list |-> list]
WithCollections(list) == [kind |-> "object", list |-> list]

\* elements of the arrays: a collection id (a string), or a number
Id(c) == [typeof |-> "string", id |-> c]
ANumber == [typeof |-> "number", id |-> ""]

\* the index of the spec's scenarios: product 1 is in c1
StoredCollectionIndex ==
    IndexObject((Gid("Product", 1) :> IdList(<<Id("c1")>>)))

\* the cart as the function's input query shows it
TransformLine(item) ==
    [id |-> item.key,
     quantity |-> item.quantity,
     merchandise |-> [typename |-> "ProductVariant",
                      id |-> Gid("ProductVariant", item.variant_id),
                      product |-> [id |-> Gid("Product", item.product_id)]],
     cost |-> [totalAmount |-> [amount |-> PriceOf(item.variant_id) * item.quantity,
                                currencyCode |-> CartCurrency]]]

TransformInput(c, stored) ==
    [cart |-> [lines |-> [i \in 1..Len(c.items) |-> TransformLine(c.items[i])]],
     shop |-> [rules |-> stored, collectionIndex |-> collectionIndex]]

NO_CHANGES == [operations |-> <<>>]

\* JSON.parse of the stored value as an array, .filter(Boolean); [] when the
\* value is absent, does not parse or is not an array
parseRules(input) ==
    IF input.shop.rules.form = "array"
    THEN SelectSeq(input.shop.rules.entries, Boolean)
    ELSE <<>>

\* list = v.filter(typeof x === "string"), or the same of v.collections
StringsOf(v) ==
    {v.list[n].id : n \in {m \in 1..Len(v.list) : v.list[m].typeof = "string"}}

\* for contrast: only the { productId: [collectionIds] } form read
parseArraysOnly(input) ==
    LET raw == input.shop.collectionIndex IN
    IF raw.form # "index" THEN <<>>
    ELSE [pid \in {k \in DOMAIN raw.entries :
                     raw.entries[k].kind = "array" /\ StringsOf(raw.entries[k]) # {}} |->
            StringsOf(raw.entries[pid])]

\* productId -> set of collectionIds; the empty map when the value is
\* absent, does not parse or is not an object; keys with an empty list are
\* left out (if (list.length) map.set(...))
parseCollectionIndex(input) ==
    LET raw == input.shop.collectionIndex IN
    IF raw.form # "index" THEN <<>>
    ELSE [pid \in {k \in DOMAIN raw.entries : StringsOf(raw.entries[k]) # {}} |->
            StringsOf(raw.entries[pid])]

RECURSIVE SumLineQuantity(_, _)
SumLineQuantity(lines, i) ==
    IF i > Len(lines) THEN 0 ELSE lines[i].quantity + SumLineQuantity(lines, i + 1)

cartQuantity(input) == SumLineQuantity(input.cart.lines, 1)

RECURSIVE SumLineAmount(_, _)
SumLineAmount(lines, i) ==
    IF i > Len(lines) THEN 0
    ELSE lines[i].cost.totalAmount.amount + SumLineAmount(lines, i + 1)

\* amount in cents; currency of the first line, null for an empty cart
cartTotalAmount(input) ==
    [amount |-> SumLineAmount(input.cart.lines, 1),
     currency |-> IF Len(input.cart.lines) = 0 THEN Null
                  ELSE input.cart.lines[1].cost.totalAmount.currencyCode]

includesAnyVariant(input, variantIds) ==
    \E i \in 1..Len(input.cart.lines) :
        /\ input.cart.lines[i].merchandise.typename = "ProductVariant"
        /\ input.cart.lines[i].merchandise.id \in variantIds

variantInCart(input, variantId) ==
    \E i \in 1..Len(input.cart.lines) :
        /\ input.cart.lines[i].merchandise.typename = "ProductVariant"
        /\ input.cart.lines[i].merchandise.id = variantId

\* the product_quantity_in_range loop: every line of the product counts
RECURSIVE SumProductQuantity(_, _, _)
SumProductQuantity(lines, targetPid, i) ==
    IF i > Len(lines) THEN 0
    ELSE (IF /\ lines[i].merchandise.typename = "ProductVariant"
             /\ lines[i].merchandise.product.id = targetPid
          THEN lines[i].quantity ELSE 0)
         + SumProductQuantity(lines, targetPid, i + 1)

\* one pass of ruleApplies' switch: TRUE when the condition neither returns
\* false nor throws
conditionApplies(cond, input) ==
    CASE conditionThrows(cond) -> FALSE
      [] cond.type = "cart_quantity_at_least" ->
           ~(cartQuantity(input) < cond.threshold)
      [] cond.type = "cart_total_at_least" ->
           LET t == cartTotalAmount(input) IN
           /\ ~(t.amount < cond.amount * 100)
           /\ ~(cond.currencyCode # Null /\ t.currency # Null
                /\ cond.currencyCode # t.currency)
      [] cond.type = "includes_any_variants" ->
           includesAnyVariant(input, cond.variantIds)
      [] cond.type = "includes_any_products" ->
           \E i \in 1..Len(input.cart.lines) :
               /\ input.cart.lines[i].merchandise.typename = "ProductVariant"
               /\ input.cart.lines[i].merchandise.product.id \in cond.productIds
      [] cond.type = "includes_any_collections" ->
           LET idx == parseCollectionIndex(input) IN
           \E i \in 1..Len(input.cart.lines) :
               LET pid == input.cart.lines[i].merchandise.product.id IN
               /\ input.cart.lines[i].merchandise.typename = "ProductVariant"
               /\ pid \in DOMAIN idx
               /\ idx[pid] \cap cond.collectionIds # {}
      [] cond.type = "cart_quantity_in_range" ->
           LET q == cartQuantity(input) IN
           /\ ~(q < cond.min)
           /\ ~(IsNumber(cond.max) /\ q > cond.max)
      [] cond.type = "product_quantity_in_range" ->
           LET total == SumProductQuantity(input.cart.lines, cond.productId, 1) IN
           /\ ~(total < cond.min)
           /\ ~(IsNumber(cond.max) /\ total > cond.max)
      [] OTHER -> FALSE

RECURSIVE appliesFrom(_, _, _)
appliesFrom(rule, input, i) ==
    IF i > Len(rule.conditions) THEN TRUE
    ELSE IF conditionApplies(rule.conditions[i], input)
         THEN appliesFrom(rule, input, i + 1)
         ELSE FALSE

ruleApplies(rule, input) ==
    IF ~Active(rule) THEN FALSE ELSE appliesFrom(rule, input, 1)

\* ruleApplies ends in a TypeError
ruleAppliesThrows(rule, input) ==
    /\ Active(rule)
    /\ \E n \in 1..Len(rule.conditions) :
          /\ conditionThrows(rule.conditions[n])
          /\ \A m \in 1..(n - 1) : conditionApplies(rule.conditions[m], input)

\* for contrast: an operation for every stored rule that applies
runRules(input) ==
    [operations |-> SelectSeq(parseRules(input), LAMBDA rule : ruleApplies(rule, input))]

\* the function's entry point
cartTransformRun(input) == NO_CHANGES

----------------------------------------------------------------------------
(* The collection-index endpoint (api.collection-index/route.ts, action)   *)

\* the shop's collections: the product nodes collection(id).products returns
CollectionProducts(cid) ==
    CASE cid = "c1" -> <<Gid("Product", 1)>>
      [] cid = "c2" -> <<Gid("Product", 1), Gid("Product", 2)>>
      [] OTHER -> <<>>

\* request bodies: no collectionIds array, or one
NoBody == [none |-> TRUE]
Body(ids) == [collectionIds |-> ids]
Bodies ==
    {NoBody, Body(<<>>), Body(<<"c1">>), Body(<<"c2">>), Body(<<"c3">>),
     Body(<<"c1", "c2">>), Body(<<"c1", "c1">>)}

\* Set.add: insertion order, no duplicate
SetAdd(seq, x) ==
    IF \E n \in 1..Len(seq) : seq[n] = x THEN seq ELSE Append(seq, x)

\* new Set(array), Array.from(set)
RECURSIVE SetOf(_, _, _)
SetOf(list, n, set) ==
    IF n > Len(list) THEN set ELSE SetOf(list, n + 1, SetAdd(set, list[n]))

\* a set of ids in some order of iteration
RECURSIVE InOrder(_)
InOrder(S) ==
    IF S = {} THEN <<>>
    ELSE LET x == CHOOSE x \in S : TRUE IN <<x>> \o InOrder(S \ {x})

\* the fallback: the collectionIds of the includes_any_collections conditions
\* of the stored rules; throws on a value that is not iterable or on a null
\* entry
RECURSIVE idsOfConditions(_, _, _)
idsOfConditions(conditions, n, set) ==
    IF n > Len(conditions) THEN set
    ELSE idsOfConditions(conditions, n + 1,
            IF conditions[n].type = "includes_any_collections"
            THEN SetOf(InOrder(conditions[n].collectionIds), 1, set)
            ELSE set)
RECURSIVE idsOfRules(_, _, _)
idsOfRules(entries, n, set) ==
    IF n > Len(entries) THEN set
    ELSE idsOfRules(entries, n + 1,
            IF IsObject(entries[n]) THEN idsOfConditions(entries[n].conditions, 1, set)
            ELSE set)
fallbackIds(stored) ==
    CASE stored.form = "array" ->
           IF \E n \in 1..Len(stored.entries) : stored.entries[n] = NullEntry
           THEN [throws |-> TRUE, ids |-> <<>>]
           ELSE [throws |-> FALSE, ids |-> idsOfRules(stored.entries, 1, <<>>)]
      [] stored.form = "object" -> [throws |-> TRUE, ids |-> <<>>]
      [] OTHER -> [throws |-> FALSE, ids |-> <<>>]

\* mapping: productId -> Set of collectionIds, filled collection by collection
RECURSIVE addNodes(_, _, _, _)
addNodes(mapping, nodes, n, cid) ==
    IF n > Len(nodes) THEN mapping
    ELSE addNodes(IF nodes[n] \in DOMAIN mapping
                  THEN [mapping EXCEPT ![nodes[n]] = SetAdd(@, cid)]
                  ELSE mapping @@ (nodes[n] :> <<cid>>),
                  nodes, n + 1, cid)
RECURSIVE buildMapping(_, _, _)
buildMapping(collectionIds, n, mapping) ==
    IF n > Len(collectionIds) THEN mapping
    ELSE buildMapping(collectionIds, n + 1,
                      addNodes(mapping, CollectionProducts(collectionIds[n]), 1,
                               collectionIds[n]))

\* existing = existingStr ? JSON.parse(existingStr) : {}, {} when it throws
parseExisting(value) ==
    IF value.form \in {"absent", "unparseable"} THEN IndexObject(<<>>) ELSE value

\* the merge loop: TypeError on existing = null and on new Set(v) of a value
\* that is not iterable
mergeThrows(existing, mapping) ==
    /\ DOMAIN mapping # {}
    /\ \/ existing.form = "null"
       \/ \E pid \in DOMAIN mapping \cap DOMAIN existing.entries :
             existing.entries[pid].kind = "object"

\* prev = new Set(existing[pid] || []); prev.add(c) for each c of the mapping;
\* existing[pid] = Array.from(prev)
mergedList(prev, cids) ==
    SetOf([n \in 1..Len(cids) |-> Id(cids[n])], 1, SetOf(prev, 1, <<>>))

mergeIndex(existing, mapping) ==
    IF DOMAIN mapping = {} THEN existing
    ELSE IndexObject(
           [pid \in DOMAIN existing.entries \cup DOMAIN mapping |->
              IF pid \in DOMAIN mapping
              THEN IdList(mergedList(IF pid \in DOMAIN existing.entries
                                     THEN existing.entries[pid].list ELSE <<>>,
                                     mapping[pid]))
              ELSE existing.entries[pid]])

\* the action from the request to its read of the stored index: the ids of
\* the body or of the rules, 400 when there are none, then the mapping
Request(body) ==
    LET given == IF body = NoBody THEN fallbackIds(storedRules)
                 ELSE [throws |-> FALSE, ids |-> body.collectionIds]
    IN
    /\ IF given.throws
       THEN answer' = [ok |-> FALSE, status |-> 500] /\ UNCHANGED rebuilds
       ELSE IF Len(given.ids) = 0
       THEN answer' = [ok |-> FALSE, status |-> 400] /\ UNCHANGED rebuilds
       ELSE /\ Len(rebuilds) < MaxRebuilds
            /\ rebuilds' = Append(rebuilds,
                               [pc |-> "read", mapping |-> buildMapping(given.ids, 1, <<>>),
                                value |-> NoValue])
            /\ UNCHANGED answer
    /\ UNCHANGED <<collectionIndex, storedRules, rules, processing, lastCartToken, cart,
                   cycles, timers, last, clean, edits, detected>>

\* GetCollectionIndex returns and the merge loop runs
ReadExisting(i) ==
    LET r == rebuilds[i]
        existing == parseExisting(collectionIndex)
    IN
    /\ r.pc = "read"
    /\ IF mergeThrows(existing, r.mapping)
       THEN /\ answer' = [ok |-> FALSE, status |-> 500]
            /\ rebuilds' = RemoveAt(rebuilds, i)
       ELSE /\ rebuilds' = [rebuilds EXCEPT ![i].pc = "write",
                                            ![i].value = mergeIndex(existing, r.mapping)]
            /\ UNCHANGED answer
    /\ UNCHANGED <<collectionIndex, storedRules, rules, processing, lastCartToken, cart,
                   cycles, timers, last, clean, edits, detected>>

\* metafieldsSet returns: the value is stored, or userErrors come back
SetCollectionIndex(i) ==
    LET r == rebuilds[i] IN
    /\ r.pc = "write"
    /\ \E stored \in BOOLEAN :
         IF stored
         THEN collectionIndex' = r.value /\ answer' = [ok |-> TRUE, status |-> 200]
         ELSE answer' = [ok |-> FALSE, status |-> 400] /\ UNCHANGED collectionIndex
    /\ rebuilds' = RemoveAt(rebuilds, i)
    /\ UNCHANGED <<storedRules, rules, processing, lastCartToken, cart,
                   cycles, timers, last, clean, edits, detected>>

----------------------------------------------------------------------------
(* Specifications *)

\* no request to api.collection-index answered yet
NoAnswer == [ok |-> TRUE, status |-> 0]

\* after init(): rules fetched, setupCartMonitoring has called processCart()
InitWith(values, carts) ==
    /\ storedRules \in values
    /\ rules = fetchRules(loader(storedRules))
    /\ cart \in carts
    /\ processing = TRUE
    /\ cycles = <<NewCycle>>
    /\ lastCartToken = Null
    /\ timers = 0
    /\ last = NoLast
    /\ clean = FALSE
    /\ edits = 0
    /\ detected = FALSE
    /\ collectionIndex = StoredCollectionIndex
    /\ rebuilds = <<>>
    /\ answer = NoAnswer

EngineStep ==
    \/ Poll
    \/ TimerFire
    \/ \E i \in 1..Len(cycles) : ServeCart(i)
    \/ \E i \in 1..Len(cycles) : GetCartReturn(i)
    \/ \E i \in 1..Len(cycles) : IssueCall(i)
    \/ \E i \in 1..Len(cycles) : Finish(i)

\* a shopping session: a page that starts on an empty cart
\* (a failed fetchRules leaves rules = [], the page of an empty rule list)
SessionRuleLists ==
    {<<>>, <<RuleOwnGift>>, <<RuleSpend30>>, <<RulePair, RuleSpend30>>, <<RuleBare, RuleOff>>}

Init == InitWith(ArrayValues(SessionRuleLists), {[token |-> "t1", items |-> <<>>]})

Next ==
    \/ EngineStep
    \/ CartOpen
    \/ SubmitOrClick
    \/ CustomerEdit

Spec == Init /\ [][Next]_vars

\* the engine alone, started on every rule list and every cart of the bounds
InitCycle ==
    InitWith(ArrayValues(AllRuleLists), {[token |-> "t1", items |-> items] : items \in AllCartItems})

NextCycle == EngineStep

SpecCycle == InitCycle /\ [][NextCycle]_vars

\* the engine alone, on every stored value of the evaluators' catalogue
InitEval ==
    InitWith(EvalValues, {[token |-> "t1", items |-> items] : items \in AllCartItems})

SpecEval == InitEval /\ [][NextCycle]_vars

\* getCart's fetch gets the cart
ServedCart == \E i \in 1..Len(cycles) : ServeCart(i) /\ cycles'[i].snap = cart

\* the variant a cart call is about
CallVariant(call) ==
    IF call.op = "add" THEN AddedVariant(call.variantId) ELSE call.key[1]

\* a cart call about variant v is applied by the shop
AppliedCall(v) ==
    \E i \in 1..Len(cycles) :
        /\ cycles[i].pc = "calls" /\ CallVariant(Head(cycles[i].todo)) = v
        /\ IssueCall(i)
        /\ last'.failed = last.failed

\* the carts of at most one line
SmallCarts == {[token |-> "t1", items |-> items] : items \in SeqsUpTo(AllItems, 1)}

FairRuleLists == {<<RuleOwnGift>>, <<RuleSpend30>>, <<RulePair>>, <<RuleSpend40, RuleSpend30>>}

InitFair == InitWith(ArrayValues(FairRuleLists), SmallCarts)

\* the interval keeps firing and pending timeouts run; every await of a
\* started processCart returns; the cart is read and a call is applied if
\* tried often enough
Fairness ==
    /\ WF_vars(Poll)
    /\ WF_vars(TimerFire)
    /\ WF_vars(\E i \in 1..Len(cycles) : GetCartReturn(i))
    /\ WF_vars(\E i \in 1..Len(cycles) : Finish(i))
    /\ WF_vars(\E i \in 1..Len(cycles) : ServeCart(i))
    /\ WF_vars(\E i \in 1..Len(cycles) : IssueCall(i))
    /\ SF_vars(ServedCart)
    /\ \A v \in Variants : SF_vars(AppliedCall(v))

\* the engine alone under fair scheduling, on small carts
SpecFair == InitFair /\ [][NextCycle]_vars /\ Fairness

\* stored indexes: absent, unparseable, null, and objects whose entries are
\* arrays (empty, stale, with a repeated id, with a number) or objects with
\* a collections array
IndexValues ==
    { NoValue, NotJson, JsonNull, IndexObject(<<>>), StoredCollectionIndex,
      IndexObject((Gid("Product", 1) :> IdList(<<Id("c3")>>))),
      IndexObject((Gid("Product", 1) :> IdList(<<Id("c1"), Id("c1")>>))),
      IndexObject((Gid("Product", 2) :> WithCollections(<<Id("c2")>>))),
      IndexObject((Gid("Product", 1) :> IdList(<<>>))
                  @@ (Gid("Product", 2) :> IdList(<<ANumber, Id("c1")>>))),
      IndexObject((Gid("Product", 1) :> IdList(<<Id("c1")>>))
                  @@ (Gid("Product", 2) :> IdList(<<Id("c1")>>))) }

CollectionRule(ids) ==
    Rule("collections", TRUE, "", <<IncludesAnyCollections(ids)>>,
         Gid("ProductVariant", 3), 1)

\* stored rules for the fallback and for ruleApplies
IndexRuleValues ==
    { NoValue, JsonObject, JsonArray(<<NullEntry, CollectionRule({"c1"})>>),
      JsonArray(<<RuleOwnGift>>),
      JsonArray(<<CollectionRule({"c1"})>>), JsonArray(<<CollectionRule({"c2"})>>),
      JsonArray(<<CollectionRule({"c1", "c2"})>>) }

\* carts of lines added by hand: variant 1 (product 1) and variant 3
\* (product 2)
IndexCarts ==
    {[token |-> "t1", items |-> items] :
        items \in {c \in SeqsUpTo({MkItem(v, Null, 0, 1) : v \in {1, 3}}, MaxLines) :
                      DistinctKeys(c)}}

\* the cart transform's inputs and the collection-index endpoint, the
\* storefront left out
InitIndex ==
    /\ storedRules \in IndexRuleValues
    /\ rules = <<>>
    /\ cart \in IndexCarts
    /\ processing = FALSE
    /\ cycles = <<>>
    /\ lastCartToken = Null
    /\ timers = 0
    /\ last = NoLast
    /\ clean = FALSE
    /\ edits = 0
    /\ detected = FALSE
    /\ collectionIndex \in IndexValues
    /\ rebuilds = <<>>
    /\ answer = NoAnswer

NextIndex ==
    \/ \E body \in Bodies : Request(body)
    \/ \E i \in 1..Len(rebuilds) : ReadExisting(i)
    \/ \E i \in 1..Len(rebuilds) : SetCollectionIndex(i)

SpecIndex == InitIndex /\ [][NextIndex]_vars

\* carts that hold a gift twice: the two auto-added lines of variant 3 and a
\* line of variant 1 added by hand, in every order and quantity
DuplicateLines ==
    {MkItem(k[1], k[2], k[3], q) :
        k \in {<<1, Null, 0>>, <<3, "true", 0>>, <<3, "true", 1>>}, q \in 1..MaxQty}

DuplicateCarts ==
    {[token |-> "t1", items |-> items] :
        items \in {s \in DuplicateLines \X DuplicateLines \X DuplicateLines :
                     DistinctKeys(s)}}

DuplicateRuleLists ==
    {<<RulePair>>, <<RuleSpend40>>, <<RuleBare>>, <<RuleOwnGift, RulePair>>, <<RuleOwnGift>>}

InitDuplicates == InitWith(ArrayValues(DuplicateRuleLists), DuplicateCarts)

\* the engine alone on the carts that hold a gift twice
SpecDuplicates == InitDuplicates /\ [][NextCycle]_vars

----------------------------------------------------------------------------
(* Properties *)

\* the evaluations on record: the latest one, and those of the cycles in flight
\* (snapshot, and the calls issued and still to issue, in order)
Evaluations ==
    (IF last.evaluated THEN {[snap |-> last.snap, plan |-> last.plan]} ELSE {})
    \cup {[snap |-> cycles[i].snap, plan |-> cycles[i].issued \o cycles[i].todo] :
            i \in {j \in 1..Len(cycles) : cycles[j].pc \in {"calls", "refresh"}}}

Calls(e) == {e.plan[n] : n \in 1..Len(e.plan)}
Lines(c) == {c.items[n] : n \in 1..Len(c.items)}

\* rule i matches snapshot c
Matches(i, c) == evaluateRule(rules[i], c)

\* variant v is the target of a rule that matches c
TargetOfMatching(v, c) ==
    \E i \in 1..Len(rules) :
        Matches(i, c) /\ AddedVariant(rules[i].action.addVariantId) = v

\* C1: a cycle that follows a cycle all of whose calls were applied, with no
\* other change to the cart in between, issues no call
Idempotence == (last.evaluated /\ last.clean) => last.plan = <<>>

\* C2: no evaluation issues an Add for a variant of which the snapshot holds
\* a line without the _auto_added marker
ManualNeverDuplicated ==
    \A e \in Evaluations : \A call \in Calls(e) : \A item \in Lines(e.snap) :
        (call.op = "add" /\ ~IsAutoAdded(item))
            => AddedVariant(call.variantId) # item.variant_id

\* C2 witness: a matching rule targets a variant held by hand only
ManualTargetSeen ==
    \E e \in Evaluations : \E item \in Lines(e.snap) :
        /\ ~IsAutoAdded(item)
        /\ TargetOfMatching(item.variant_id, e.snap)
        /\ \A other \in Lines(e.snap) :
              other.variant_id = item.variant_id => ~IsAutoAdded(other)

\* C3: every remove and every quantity update targets the key of a line that
\* carries the marker in the snapshot
OnlyAutoAddedEdited ==
    \A e \in Evaluations : \A call \in Calls(e) :
        call.op \in {"remove", "update"}
            => \E item \in Lines(e.snap) : item.key = call.key /\ IsAutoAdded(item)

\* C3 witness: removes or updates issued on a snapshot that also holds a line
\* added by hand, of a quantity other than 1
EditedBesideManual ==
    \E e \in Evaluations :
        /\ \E call \in Calls(e) : call.op \in {"remove", "update"}
        /\ \E item \in Lines(e.snap) : ~IsAutoAdded(item) /\ item.quantity # 1

\* the matching rules that win: ungrouped, or the first match of their group
Winner(i, c) ==
    /\ Matches(i, c)
    /\ rules[i].group # "" =>
          \A j \in 1..(i - 1) : ~(Matches(j, c) /\ rules[j].group = rules[i].group)

\* C4: when two or more matching rules share a group, the should-have map holds
\* the target of the first of them, and the target of a later one only when a
\* winning rule targets it; the map holds the targets of the winners and no other
GroupFirstMatchWins ==
    \A e \in Evaluations :
        LET map == shouldHaveVariants(rules, e.snap)
            keys == {map[n].k : n \in 1..Len(map)}
        IN /\ \A i, j \in 1..Len(rules) :
                (i < j /\ Matches(i, e.snap) /\ Matches(j, e.snap)
                 /\ rules[i].group # "" /\ rules[i].group = rules[j].group
                 /\ Winner(i, e.snap))
                    => /\ rules[i].action.addVariantId \in keys
                       /\ rules[j].action.addVariantId \in keys
                            => \E k \in 1..Len(rules) :
                                  /\ Winner(k, e.snap)
                                  /\ rules[k].action.addVariantId
                                        = rules[j].action.addVariantId
           /\ keys = {rules[i].action.addVariantId :
                        i \in {n \in 1..Len(rules) : Winner(n, e.snap)}}

\* C4 witness: two matching rules of one group with different targets
GroupContested ==
    \E e \in Evaluations : \E i, j \in 1..Len(rules) :
        /\ i < j /\ Matches(i, e.snap) /\ Matches(j, e.snap)
        /\ rules[i].group # "" /\ rules[i].group = rules[j].group
        /\ rules[i].action.addVariantId # rules[j].action.addVariantId

\* an invocation returns at the busy guard in this step
Knock ==
    \E i \in 1..Len(cycles) :
        i <= Len(cycles') /\ ~cycles[i].knocked /\ cycles'[i].knocked

\* C5: at most one invocation is past the guard, processing says so, and an
\* invocation that finds processing set reads no cart and issues no call
SerializedCycles ==
    /\ [](Len(cycles) <= 1 /\ (processing <=> Len(cycles) = 1))
    /\ [][Knock => /\ cart' = cart
                   /\ Len(cycles') = Len(cycles)
                   /\ \A i \in 1..Len(cycles) :
                        /\ cycles'[i].pc = cycles[i].pc
                        /\ cycles'[i].snap = cycles[i].snap
                        /\ cycles'[i].issued = cycles[i].issued]_vars

\* C5 witness: an invocation was turned away while a cycle was issuing calls
TurnedAway ==
    \E i \in 1..Len(cycles) :
        cycles[i].knocked /\ cycles[i].pc = "calls" /\ cycles[i].issued # <<>>

\* C6: for every stored rule, ruleApplies and evaluateRule decide alike
RuleMatchAgrees ==
    LET input == TransformInput(cart, storedRules) IN
    \A i \in 1..Len(parseRules(input)) :
        ruleApplies(parseRules(input)[i], input) = evaluateRule(parseRules(input)[i], cart)

\* the first auto-added line of its variant in the snapshot
FirstAutoAdded(c, n) ==
    /\ IsAutoAdded(c.items[n])
    /\ \A m \in 1..(n - 1) :
          ~(IsAutoAdded(c.items[m]) /\ c.items[m].variant_id = c.items[n].variant_id)

\* C7: an Add and a quantity update carry the action.quantity of the rule that
\* put the variant in the should-have map, and an auto-added line that has
\* this quantity gets no call
GiftQuantityFollowsRule ==
    \A e \in Evaluations :
        LET map == shouldHaveVariants(rules, e.snap) IN
        /\ \A call \in Calls(e) :
              call.op = "add" => call.quantity = ActionQuantity(MapGet(map, call.variantId))
        /\ \A n \in 1..Len(e.snap.items) :
              LET item == e.snap.items[n]
                  variantGid == Gid("ProductVariant", item.variant_id)
              IN (FirstAutoAdded(e.snap, n) /\ MapHas(map, variantGid))
                    => LET q == ActionQuantity(MapGet(map, variantGid)) IN
                       /\ \A call \in Calls(e) :
                             (call.op = "update" /\ call.key = item.key)
                                => call.quantity = q
                       /\ item.quantity = q
                             => \A call \in Calls(e) :
                                   call.op = "add" \/ call.key # item.key

\* C8: with a single rule whose only condition is cart_total_at_least, on a
\* snapshot whose total reaches the amount and that holds no line of the
\* target, the cycle issues one Add of the target and nothing else, and
\* cartTransformRun returns one operation
SpendRuleFires ==
    \A e \in Evaluations :
        (/\ Len(rules) = 1
         /\ Len(rules[1].conditions) = 1
         /\ rules[1].conditions[1].type = "cart_total_at_least"
         /\ rules[1].conditions[1].currencyCode \in {Null, CartCurrency}
         /\ total_price(e.snap) >= rules[1].conditions[1].amount * 100
         /\ \A item \in Lines(e.snap) :
               item.variant_id # AddedVariant(rules[1].action.addVariantId))
            => /\ Len(e.plan) = 1
               /\ e.plan[1].op = "add"
               /\ e.plan[1].variantId = rules[1].action.addVariantId
               /\ Len(cartTransformRun(TransformInput(e.snap, storedRules)).operations) = 1

\* C9: an evaluation issues, for each auto-added line whose variant no matching
\* rule targets, one Remove of the line's key, no quantity update of that key
\* and no Add of that variant
StaleGiftsRemoved ==
    \A e \in Evaluations : \A item \in Lines(e.snap) :
        (IsAutoAdded(item) /\ ~TargetOfMatching(item.variant_id, e.snap))
            => /\ Cardinality({n \in 1..Len(e.plan) : e.plan[n] = Remove(item.key)}) = 1
               /\ \A call \in Calls(e) :
                     /\ call.op = "update" => call.key # item.key
                     /\ call.op = "add" => AddedVariant(call.variantId) # item.variant_id

\* C9 witness: a cycle has issued the Remove of a stale gift while the shop
\* holds rules that match the snapshot for other variants
StaleGiftRemoved ==
    \E i \in 1..Len(cycles) : \E item \in Lines(cycles[i].snap) :
        /\ cycles[i].pc = "refresh"
        /\ IsAutoAdded(item)
        /\ ~TargetOfMatching(item.variant_id, cycles[i].snap)
        /\ \E n \in 1..Len(rules) : Matches(n, cycles[i].snap)
        /\ \E n \in 1..Len(cycles[i].issued) : cycles[i].issued[n] = Remove(item.key)

\* the product_quantity_in_range conditions of the rules in use
RangeConditions ==
    UNION {{rules[i].conditions[n] :
              n \in {m \in 1..Len(rules[i].conditions) :
                       rules[i].conditions[m].type = "product_quantity_in_range"}} :
           i \in 1..Len(rules)}

\* the lines of the condition's product that do not carry the marker
TriggerLinesOnly(cond, c) ==
    [c EXCEPT !.items =
        SelectSeq(c.items, LAMBDA it :
            /\ ~IsAutoAdded(it)
            /\ String(it.product_id) = StripPrefix(cond.productId, "Product"))]

\* C10: a product_quantity_in_range condition decides on the cart as it decides
\* on the unmarked lines of its product alone, and no call of the engine
\* changes its decision
OwnGiftsNotCounted ==
    /\ [](\A cond \in RangeConditions :
            evaluateCondition(cond, cart)
                = evaluateCondition(cond, TriggerLinesOnly(cond, cart)))
    /\ [][\A cond \in RangeConditions :
            evaluateCondition(cond, cart') = evaluateCondition(cond, cart)]_vars

\* C10 witness: after a cycle whose calls were applied, the cart holds a marked
\* line of the condition's product that would put the count above max, and the
\* condition matches
OwnGiftInCart ==
    /\ last.evaluated /\ last.clean
    /\ \E cond \in RangeConditions : \E item \in Lines(last.snap) :
          /\ IsAutoAdded(item)
          /\ String(item.product_id) = StripPrefix(cond.productId, "Product")
          /\ cond.max # NoMax
          /\ CountAllQty(last.snap.items, StripPrefix(cond.productId, "Product"), 1)
                > cond.max
          /\ evaluateCondition(cond, last.snap)

\* the stored conditions of kind product_quantity_in_range
StoredRangeConditions ==
    LET rs == parseRules(TransformInput(cart, storedRules)) IN
    UNION {{rs[i].conditions[n] :
              n \in {m \in 1..Len(rs[i].conditions) :
                       rs[i].conditions[m].type = "product_quantity_in_range"}} :
           i \in 1..Len(rs)}

\* the quantity of the cart's lines of a product that do not carry the marker
RECURSIVE UnmarkedQuantity(_, _, _)
UnmarkedQuantity(items, productId, i) ==
    IF i > Len(items) THEN 0
    ELSE (IF ~IsAutoAdded(items[i]) /\ Gid("Product", items[i].product_id) = productId
          THEN items[i].quantity ELSE 0)
         + UnmarkedQuantity(items, productId, i + 1)

\* C11: the quantity ruleApplies sums for a product_quantity_in_range
\* condition is the quantity of the unmarked lines of the product
TransformExcludesGifts ==
    \A cond \in StoredRangeConditions :
        SumProductQuantity(TransformInput(cart, storedRules).cart.lines, cond.productId, 1)
            = UnmarkedQuantity(cart.items, cond.productId, 1)

\* the stored rules as the evaluators get them
StoredRules == parseRules(TransformInput(cart, storedRules))

\* C13: a stored rule with an empty condition list matches in neither evaluator
EmptyConditionsNeverMatch ==
    \A i \in 1..Len(StoredRules) :
        Len(StoredRules[i].conditions) = 0
            => /\ ~evaluateRule(StoredRules[i], cart)
               /\ ~ruleApplies(StoredRules[i], TransformInput(cart, storedRules))

StoredRuleObjects == SelectSeq(StoredRules, IsObject)
StoredConditions ==
    UNION {{StoredRuleObjects[i].conditions[n] :
              n \in 1..Len(StoredRuleObjects[i].conditions)} :
           i \in 1..Len(StoredRuleObjects)}

\* min <= q <= max, and min <= q when max is omitted or null
InRange(q, cond) ==
    q >= cond.min /\ (cond.max \in {NoMax, NullMax} \/ q <= cond.max)

\* C12: a range condition passes exactly when the quantity it counts is within
\* its bounds, both bounds included, in ruleApplies (both range kinds) and in
\* evaluateRule (product_quantity_in_range)
InclusiveRangeBounds ==
    LET input == TransformInput(cart, storedRules) IN
    \A cond \in StoredConditions :
        /\ cond.type = "cart_quantity_in_range"
              => conditionApplies(cond, input) = InRange(cartQuantity(input), cond)
        /\ (cond.type = "product_quantity_in_range" /\ ~conditionThrows(cond))
              => /\ conditionApplies(cond, input)
                      = InRange(SumProductQuantity(input.cart.lines, cond.productId, 1),
                                cond)
                 /\ evaluateCondition(cond, cart)
                      = InRange(CountTriggerQty(cart.items,
                                     StripPrefix(cond.productId, "Product"), 1), cond)

\* C12 witness: a cycle evaluated a snapshot whose counted quantity is the max
\* of the rule's range, above its min, and issued the Add
UpperBoundEvaluated ==
    /\ last.evaluated
    /\ \E i \in 1..Len(rules) : \E n \in 1..Len(rules[i].conditions) :
          LET cond == rules[i].conditions[n] IN
          /\ cond.type = "product_quantity_in_range"
          /\ ~conditionThrows(cond)
          /\ HasMax(cond.max)
          /\ cond.min < cond.max
          /\ CountTriggerQty(last.snap.items, StripPrefix(cond.productId, "Product"), 1)
                = cond.max
          /\ \E m \in 1..Len(last.plan) :
                last.plan[m] = Add(rules[i].action.addVariantId, 1)

\* condition n of the rule fails: it neither passes nor throws
FailsStorefront(rule, n, c) ==
    ~conditionThrows(rule.conditions[n]) /\ ~evaluateCondition(rule.conditions[n], c)
FailsTransform(rule, n, input) ==
    ~conditionThrows(rule.conditions[n]) /\ ~conditionApplies(rule.conditions[n], input)

\* C15: a rule with at least one condition matches exactly when each of its
\* conditions passes, and a condition after the first failing one is not
\* evaluated: a TypeError it would raise is not raised
ConditionsAndShortCircuit ==
    LET input == TransformInput(cart, storedRules) IN
    \A i \in 1..Len(StoredRuleObjects) :
        LET rule == StoredRuleObjects[i]
            ns == 1..Len(rule.conditions)
        IN ns # {} =>
           /\ ~evaluateThrows(rule, cart)
                 => evaluateRule(rule, cart)
                      = \A n \in ns : evaluateCondition(rule.conditions[n], cart)
           /\ (\E n \in ns : /\ FailsStorefront(rule, n, cart)
                             /\ \A m \in 1..(n - 1) : ~conditionThrows(rule.conditions[m]))
                 => ~evaluateThrows(rule, cart)
           /\ (Active(rule) /\ ~ruleAppliesThrows(rule, input))
                 => ruleApplies(rule, input)
                      = \A n \in ns : conditionApplies(rule.conditions[n], input)
           /\ (\E n \in ns : /\ FailsTransform(rule, n, input)
                             /\ \A m \in 1..(n - 1) : ~conditionThrows(rule.conditions[m]))
                 => ~ruleAppliesThrows(rule, input)

\* C15 witness: a cycle evaluated a rule whose first condition fails and whose
\* second condition would throw, and ended without an error
LaterConditionNotEvaluated ==
    /\ last.evaluated /\ ~last.error
    /\ \E i \in 1..Len(rules) :
          /\ Len(rules[i].conditions) = 2
          /\ FailsStorefront(rules[i], 1, last.snap)
          /\ conditionThrows(rules[i].conditions[2])

\* the first condition of the rule whose kind is not in the set, 0 when none
FirstUnknown(rule, kinds) ==
    LET ns == {n \in 1..Len(rule.conditions) : rule.conditions[n].type \notin kinds}
    IN IF ns = {} THEN 0 ELSE CHOOSE n \in ns : \A m \in ns : n <= m

AfterGetCart ==
    /\ Len(cycles) = 1 /\ cycles[1].pc = "gotCart" /\ cycles[1].snap # NoCart
    /\ (Len(cycles') = 0 \/ cycles'[1].pc # "gotCart")

\* C17: when a call of the latest evaluation failed, the next invocation that
\* reads the cart is not skipped by the token check and evaluates the rules;
\* when it finds the lines of that evaluation's snapshot it issues the calls of
\* that evaluation again, the failed ones among them
FailedCallsRetried ==
    [][(AfterGetCart /\ last.failed # <<>>)
          => /\ cycles[1].snap.token # lastCartToken
             /\ last'.snap = cycles[1].snap /\ last'.failed = <<>>
             /\ cycles[1].snap.items = last.snap.items
                   => /\ Len(cycles') = 1
                      /\ cycles'[1].pc = "calls"
                      /\ cycles'[1].todo = last.plan
                      /\ \A n \in 1..Len(last.failed) :
                            \E m \in 1..Len(cycles'[1].todo) :
                               cycles'[1].todo[m] = last.failed[n]]_vars

\* C17 witness: every call of the latest evaluation failed, and the next
\* invocation has read the same cart, token included
RetryUnderWay ==
    /\ Len(cycles) = 1 /\ cycles[1].pc = "gotCart"
    /\ cycles[1].snap = last.snap
    /\ last.failed = last.plan /\ last.plan # <<>>

\* auto-added lines of variant v / lines of variant v added by hand
ManagedLines(v) ==
    {i \in 1..Len(cart.items) :
        IsAutoAdded(cart.items[i]) /\ cart.items[i].variant_id = v}
HeldManually(v) ==
    \E i \in 1..Len(cart.items) :
        ~IsAutoAdded(cart.items[i]) /\ cart.items[i].variant_id = v

\* the variants the rules ask for on the present cart, each with its rule
ShouldHave == shouldHaveVariants(rules, cart)

\* the auto-added lines are exactly one line of quantity action.quantity for
\* each should-have variant that is not held manually
ManagedAsRequired ==
    /\ \A n \in 1..Len(ShouldHave) :
          LET v == AddedVariant(ShouldHave[n].k) IN
          ~HeldManually(v) =>
              /\ Cardinality(ManagedLines(v)) = 1
              /\ \A i \in ManagedLines(v) :
                    cart.items[i].quantity = ActionQuantity(ShouldHave[n].rule)
    /\ \A i \in 1..Len(cart.items) :
          IsAutoAdded(cart.items[i]) =>
              \E n \in 1..Len(ShouldHave) :
                 /\ AddedVariant(ShouldHave[n].k) = cart.items[i].variant_id
                 /\ ~HeldManually(cart.items[i].variant_id)

\* no invocation is making or has just made cart calls
NoCallsUnderWay == \A i \in 1..Len(cycles) : cycles[i].pc \notin {"calls", "refresh"}

\* C18: under fair scheduling, with every call applied if tried often enough,
\* the engine reaches and stays in a state where no invocation issues a call
\* and the auto-added lines are exactly one line of quantity action.quantity
\* for each should-have variant not held manually
Convergence == <>[](NoCallsUnderWay /\ ManagedAsRequired)

\* the sum of the line totals of the present cart, in cents
LineTotals == SumLineAmount(TransformInput(cart, storedRules).cart.lines, 1)

\* the present cart's currency is `code`; an empty cart has no currency
CartCurrencyIs(code) == Len(cart.items) > 0 /\ CartCurrency = code

\* C19: ruleApplies lets a cart_total_at_least condition with a currencyCode
\* pass iff the line totals reach the amount and the cart's currency is that
\* code, and one without a currencyCode iff the line totals reach the amount
CurrencyQualifiedTotal ==
    \A cond \in StoredConditions :
        cond.type = "cart_total_at_least" =>
            (conditionApplies(cond, TransformInput(cart, storedRules))
                <=> /\ LineTotals >= cond.amount * 100
                    /\ cond.currencyCode # Null => CartCurrencyIs(cond.currencyCode))

\* a stored entry that is a rule with every condition typed as its kind asks
WellFormed(entry) ==
    IsObject(entry) /\ \A n \in 1..Len(entry.conditions) : ~conditionThrows(entry.conditions[n])

\* the entries of the stored value when it is an array, none otherwise
StoredEntries == IF storedRules.form = "array" THEN storedRules.entries ELSE <<>>

\* C20: for every stored value, parseRules and the public loader followed by
\* fetchRules give the well-formed rules of the value (the active ones for the
\* loader) and drop every other entry, and no evaluation cycle ends in an error
MalformedInputNeverFatal ==
    /\ StoredRules = SelectSeq(StoredEntries, WellFormed)
    /\ rules = SelectSeq(StoredEntries, LAMBDA e : WellFormed(e) /\ e.active)
    /\ ~last.error

\* a condition whose min, threshold or amount is negative
NegativeBound(cond) ==
    \/ "min" \in DOMAIN cond /\ cond.min < 0
    \/ "threshold" \in DOMAIN cond /\ cond.threshold < 0
    \/ "amount" \in DOMAIN cond /\ cond.amount < 0

\* C21: a stored rule whose only condition has a negative min, threshold or
\* amount (the stored value is what saveRules accepted) matches no cart, in
\* either evaluator
NegativeBoundsNeverMatch ==
    \A i \in 1..Len(StoredRuleObjects) :
        LET rule == StoredRuleObjects[i] IN
        (Len(rule.conditions) = 1 /\ NegativeBound(rule.conditions[1]))
            => /\ ~evaluateRule(rule, cart)
               /\ ~ruleApplies(rule, TransformInput(cart, storedRules))

\* the (product, collection) pairs a stored index value holds
IndexPairs(value) ==
    IF value.form # "index" THEN {}
    ELSE UNION {{<<pid, value.entries[pid].list[n].id>> :
                    n \in {m \in 1..Len(value.entries[pid].list) :
                             value.entries[pid].list[m].typeof = "string"}} :
                pid \in DOMAIN value.entries}

\* line n of the present cart is a ProductVariant line whose product is in
\* one of the collections ids, by the stored index
LineInCollections(n, ids) ==
    LET line == TransformInput(cart, storedRules).cart.lines[n] IN
    /\ line.merchandise.typename = "ProductVariant"
    /\ \E c \in ids : <<line.merchandise.product.id, c>> \in IndexPairs(collectionIndex)

\* C22: an includes_any_collections condition passes iff some ProductVariant
\* line's product maps to one of its collectionIds in the stored index; a
\* product without an entry or with an empty one maps to nothing, and a
\* value that is absent, does not parse or is no object gives the empty index
MissingIndexEntryMeansNoCollections ==
    /\ \A cond \in StoredConditions :
          cond.type = "includes_any_collections" =>
              (conditionApplies(cond, TransformInput(cart, storedRules))
                  <=> \E n \in 1..Len(cart.items) : LineInCollections(n, cond.collectionIds))
    /\ collectionIndex.form # "index"
          => DOMAIN parseCollectionIndex(TransformInput(cart, storedRules)) = {}

\* C22 witness: in the index a rebuild has stored the first line's product
\* has no entry, the second line's product is in a collection of a stored
\* condition, and the condition passes
MissingEntryBesideMatch ==
    /\ answer.status = 200
    /\ collectionIndex.form = "index"
    /\ Len(cart.items) = 2
    /\ Gid("Product", cart.items[1].product_id) \notin DOMAIN collectionIndex.entries
    /\ \E cond \in StoredConditions :
          /\ cond.type = "includes_any_collections"
          /\ LineInCollections(2, cond.collectionIds)
          /\ conditionApplies(cond, TransformInput(cart, storedRules))

\* the ids a stored index holds for product pid, in order, numbers left out
IdsOf(value, pid) ==
    IF value.form = "index" /\ pid \in DOMAIN value.entries
    THEN SelectSeq(value.entries[pid].list, LAMBDA e : e.typeof = "string")
    ELSE <<>>

\* a rebuild stores its value in this step
Stored(i) ==
    /\ i <= Len(rebuilds) /\ rebuilds[i].pc = "write"
    /\ Len(rebuilds') = Len(rebuilds) - 1
    /\ answer'.status = 200

\* a request that has no collection ids to index is answered in this step
NothingToIndex ==
    /\ rebuilds' = rebuilds /\ answer' # answer
    /\ answer'.status = 400
    /\ fallbackIds(storedRules).ids = <<>>

\* C30: every (product, collection) pair of the stored index is still in it
\* after any step of a rebuild; the value a rebuild stores holds each pair of
\* its mapping once; a request with no collection ids to index is answered
\* with an error and leaves the stored index as it was
RebuildOnlyGrows ==
    [][/\ IndexPairs(collectionIndex) \subseteq IndexPairs(collectionIndex')
       /\ \A i \in 1..MaxRebuilds : Stored(i) =>
             \A pid \in DOMAIN rebuilds[i].mapping :
                \A n \in 1..Len(rebuilds[i].mapping[pid]) :
                   Cardinality({m \in 1..Len(IdsOf(collectionIndex', pid)) :
                                  IdsOf(collectionIndex', pid)[m].id
                                      = rebuilds[i].mapping[pid][n]}) = 1
       /\ NothingToIndex => (~answer'.ok /\ collectionIndex' = collectionIndex)]_vars

\* C23: in the calls of one evaluation no Remove or SetQuantity comes after an
\* Add, and no Add is for a variant that has an auto-added line in the snapshot
RemovalsBeforeAdditions ==
    /\ \A m, n \in 1..Len(last.plan) :
          (m < n /\ last.plan[m].op = "add") => last.plan[n].op = "add"
    /\ \A n \in 1..Len(last.plan) :
          last.plan[n].op = "add" =>
              ~\E i \in 1..Len(last.snap.items) :
                  /\ IsAutoAdded(last.snap.items[i])
                  /\ last.snap.items[i].variant_id = AddedVariant(last.plan[n].variantId)

\* the quantity of variant v in the auto-added lines of cart c
RECURSIVE ManagedQuantityFrom(_, _, _)
ManagedQuantityFrom(items, v, n) ==
    IF n > Len(items) THEN 0
    ELSE (IF IsAutoAdded(items[n]) /\ items[n].variant_id = v THEN items[n].quantity ELSE 0)
         + ManagedQuantityFrom(items, v, n + 1)
ManagedQuantity(c, v) == ManagedQuantityFrom(c.items, v, 1)

\* a step of the engine, not of the customer, changes the cart
EngineChangesCart == cart' # cart /\ edits' = edits

DetectedModificationEvaluated ==
    (detected /\ cycles = <<>>) => lastCartToken # cart.token

\* C26: processing is true only while an invocation that passed the guard is
\* under way, and it is false in the state in which an invocation ends,
\* whichever way it ends
BusyFlagReleased ==
    /\ [](processing => cycles # <<>>)
    /\ [][Len(cycles') < Len(cycles) => ~processing']_vars

\* C26 witness: an invocation has ended in an exception and the flag is down
ReleasedAfterException ==
    last.evaluated /\ last.error /\ cycles = <<>> /\ ~processing

\* a started invocation ends if its awaits return
BusyFlagNotForever == []<>(~processing)

\* invocation i ends in this step
Ends(i) == cycles' = RemoveAt(cycles, i)

\* C27: an invocation whose snapshot carries the cached token ends without
\* an evaluation or a call and leaves the cache alone; one that evaluates and
\* has no call to issue ends with the snapshot's token cached; one that has
\* issued a call, applied or not, ends with the cache null, and the cache
\* stays null until the next evaluation
CartTokenCache ==
    /\ [][\A i \in 1..Len(cycles) :
            LET c == cycles[i] IN
            /\ (c.pc = "gotCart" /\ c.snap # NoCart /\ c.snap.token = lastCartToken
                  /\ Ends(i))
                   => /\ last' = last /\ cart' = cart /\ timers' = timers
                      /\ lastCartToken' = lastCartToken
            /\ (c.pc = "gotCart" /\ c.snap # NoCart /\ c.snap.token # lastCartToken
                  /\ Ends(i))
                   => /\ last'.evaluated /\ last'.snap = c.snap /\ last'.plan = <<>>
                      /\ cart' = cart
                      /\ lastCartToken' = c.snap.token
            /\ (c.pc = "refresh" /\ Ends(i))
                   => c.issued # <<>> /\ lastCartToken' = Null]_vars
    /\ []((last.plan # <<>> /\ NoCallsUnderWay) => lastCartToken = Null)

\* C27 witness: an invocation has ended none of whose calls was applied, and
\* the cache is null
CacheResetAfterFailedCalls ==
    /\ cycles = <<>> /\ last.plan # <<>> /\ last.failed = last.plan
    /\ lastCartToken = Null

\* variant v is the gift of an entry of the should-have map of snapshot c
ShouldHaveVariant(c, v) ==
    LET map == shouldHaveVariants(rules, c) IN
    \E i \in 1..Len(map) : AddedVariant(map[i].k) = v

\* snapshot c holds a second auto-added line of the variant of its line n
Duplicated(c, n) ==
    /\ IsAutoAdded(c.items[n])
    /\ \E m \in 1..Len(c.items) :
          m # n /\ IsAutoAdded(c.items[m]) /\ c.items[m].variant_id = c.items[n].variant_id

\* C28: of two or more auto-added lines of one should-have variant the first
\* in cart order is kept, with its quantity corrected to 1 if it differs, each
\* later one is removed, and the variant is not added
DuplicateGiftLinesCollapse ==
    \A e \in Evaluations : \A n \in 1..Len(e.snap.items) :
        LET item == e.snap.items[n] IN
        (Duplicated(e.snap, n) /\ ShouldHaveVariant(e.snap, item.variant_id)) =>
            /\ \A call \in Calls(e) :
                  call.op = "add" => AddedVariant(call.variantId) # item.variant_id
            /\ IF FirstAutoAdded(e.snap, n)
               THEN /\ Remove(item.key) \notin Calls(e)
                    /\ (item.quantity # 1) <=> (SetQuantity(item.key, 1) \in Calls(e))
               ELSE /\ Remove(item.key) \in Calls(e)
                    /\ \A call \in Calls(e) : call.op = "update" => call.key # item.key

\* C29: whatever the cart, the stored rules and the stored collection index,
\* cartTransformRun returns an empty list of operations
TransformPassesThrough ==
    cartTransformRun(TransformInput(cart, storedRules)).operations = <<>>

\* C29 witness: a stored rule applies to the cart under the index a rebuild
\* has stored, and the function returns no operation
PassThroughBesideApplicableRule ==
    LET input == TransformInput(cart, storedRules) IN
    /\ answer.status = 200
    /\ cart.items # <<>>
    /\ \E i \in 1..Len(parseRules(input)) : ruleApplies(parseRules(input)[i], input)
    /\ cartTransformRun(input) = NO_CHANGES
====
